---- MODULE Spec2Model ----
(***************************************************************************)
(* Model of the 4mica-core AVS performer: the TaskWorker that validates a  *)
(* TaskRequest payload against an ABI method (selector, argument length,   *)
(* decode, arity, type) and answers it with a digest or a forwarded        *)
(* JSON-RPC response.  The repository holds four revisions of the worker:  *)
(*   "config"  - NewTaskWorker(logger, TaskWorkerConfig)  (ABI configured) *)
(*   "fixed"   - dummy(bytes32) parsed inside every call                   *)
(*   "remote"  - core_issuePaymentCert forwarded to an RPC server          *)
(*   "hextext" - payload is hexadecimal text, ValidateTask is a stub       *)
(* Bytes are numbers 0..255, byte slices are sequences of bytes.           *)
(***************************************************************************)
EXTENDS Integers, Sequences, FiniteSets, TLC

(***************************************************************************)
(* crypto/sha256.Sum256, FIPS 180-4.  A 32-bit word is a pair <<hi, lo>>   *)
(* of 16-bit halves so that every intermediate value stays a small integer.*)
(***************************************************************************)
Pow2(n) == 2^n

\* bitwise AND of two 4-bit numbers, indexed from 1
And4 ==
  << <<0, 0, 0, 0, 0, 0, 0, 0, 0, 0, 0, 0, 0, 0, 0, 0>>,
     <<0, 1, 0, 1, 0, 1, 0, 1, 0, 1, 0, 1, 0, 1, 0, 1>>,
     <<0, 0, 2, 2, 0, 0, 2, 2, 0, 0, 2, 2, 0, 0, 2, 2>>,
     <<0, 1, 2, 3, 0, 1, 2, 3, 0, 1, 2, 3, 0, 1, 2, 3>>,
     <<0, 0, 0, 0, 4, 4, 4, 4, 0, 0, 0, 0, 4, 4, 4, 4>>,
     <<0, 1, 0, 1, 4, 5, 4, 5, 0, 1, 0, 1, 4, 5, 4, 5>>,
     <<0, 0, 2, 2, 4, 4, 6, 6, 0, 0, 2, 2, 4, 4, 6, 6>>,
     <<0, 1, 2, 3, 4, 5, 6, 7, 0, 1, 2, 3, 4, 5, 6, 7>>,
     <<0, 0, 0, 0, 0, 0, 0, 0, 8, 8, 8, 8, 8, 8, 8, 8>>,
     <<0, 1, 0, 1, 0, 1, 0, 1, 8, 9, 8, 9, 8, 9, 8, 9>>,
     <<0, 0, 2, 2, 0, 0, 2, 2, 8, 8, 10, 10, 8, 8, 10, 10>>,
     <<0, 1, 2, 3, 0, 1, 2, 3, 8, 9, 10, 11, 8, 9, 10, 11>>,
     <<0, 0, 0, 0, 4, 4, 4, 4, 8, 8, 8, 8, 12, 12, 12, 12>>,
     <<0, 1, 0, 1, 4, 5, 4, 5, 8, 9, 8, 9, 12, 13, 12, 13>>,
     <<0, 0, 2, 2, 4, 4, 6, 6, 8, 8, 10, 10, 12, 12, 14, 14>>,
     <<0, 1, 2, 3, 4, 5, 6, 7, 8, 9, 10, 11, 12, 13, 14, 15>> >>

Nib(a, k) == ((a \div k) % 16) + 1

And16(a, b) ==
  And4[Nib(a, 1)][Nib(b, 1)]
  + 16 * And4[Nib(a, 16)][Nib(b, 16)]
  + 256 * And4[Nib(a, 256)][Nib(b, 256)]
  + 4096 * And4[Nib(a, 4096)][Nib(b, 4096)]

Xor16(a, b) == a + b - 2 * And16(a, b)

W32And(x, y) == <<And16(x[1], y[1]), And16(x[2], y[2])>>
W32Xor(x, y) == <<Xor16(x[1], y[1]), Xor16(x[2], y[2])>>
W32Not(x) == <<65535 - x[1], 65535 - x[2]>>
W32Add(x, y) ==
  LET lo == x[2] + y[2]
      hi == x[1] + y[1] + (lo \div 65536)
  IN  <<hi % 65536, lo % 65536>>

RotR(x, n) ==
  LET y == IF n >= 16 THEN <<x[2], x[1]>> ELSE x
      m == n % 16
      P == Pow2(m)
      Q == Pow2(16 - m)
  IN  IF m = 0 THEN y
      ELSE << (y[1] \div P) + (y[2] % P) * Q, (y[2] \div P) + (y[1] % P) * Q >>

ShR(x, n) ==
  LET P == Pow2(n)
      Q == Pow2(16 - n)
  IN  << x[1] \div P, (x[2] \div P) + (x[1] % P) * Q >>

BigSigma0(x) == W32Xor(W32Xor(RotR(x, 2), RotR(x, 13)), RotR(x, 22))
BigSigma1(x) == W32Xor(W32Xor(RotR(x, 6), RotR(x, 11)), RotR(x, 25))
SmallSigma0(x) == W32Xor(W32Xor(RotR(x, 7), RotR(x, 18)), ShR(x, 3))
SmallSigma1(x) == W32Xor(W32Xor(RotR(x, 17), RotR(x, 19)), ShR(x, 10))
Ch(e, f, g) == W32Xor(W32And(e, f), W32And(W32Not(e), g))
Maj(a, b, c) == W32Xor(W32Xor(W32And(a, b), W32And(a, c)), W32And(b, c))

ShaK ==
  << <<17034, 12184>>, <<28983, 17553>>, <<46528, 64463>>, <<59829, 56229>>,
     <<14678, 49755>>, <<23025, 4593>>, <<37439, 33444>>, <<43804, 24277>>,
     <<55303, 43672>>, <<4739, 23297>>, <<9265, 34238>>, <<21772, 32195>>,
     <<29374, 23924>>, <<32990, 45566>>, <<39900, 1703>>, <<49563, 61812>>,
     <<58523, 27073>>, <<61374, 18310>>, <<4033, 40390>>, <<9228, 41420>>,
     <<11753, 11375>>, <<19060, 33962>>, <<23728, 43484>>, <<30457, 35034>>,
     <<38974, 20818>>, <<43057, 50797>>, <<45059, 10184>>, <<48985, 32711>>,
     <<50912, 3059>>, <<54695, 37191>>, <<1738, 25425>>, <<5161, 10599>>,
     <<10167, 2693>>, <<11803, 8504>>, <<19756, 28156>>, <<21304, 3347>>,
     <<25866, 29524>>, <<30314, 2747>>, <<33218, 51502>>, <<37490, 11397>>,
     <<41663, 59553>>, <<43034, 26187>>, <<49739, 35696>>, <<51052, 20899>>,
     <<53650, 59417>>, <<54937, 1572>>, <<62478, 13701>>, <<4202, 41072>>,
     <<6564, 49430>>, <<7735, 27656>>, <<10056, 30540>>, <<13488, 48309>>,
     <<14620, 3251>>, <<20184, 43594>>, <<23452, 51791>>, <<26670, 28659>>,
     <<29839, 33518>>, <<30885, 25455>>, <<33992, 30740>>, <<36039, 520>>,
     <<37054, 65530>>, <<42064, 27883>>, <<48889, 41975>>, <<50801, 30962>> >>

ShaInit ==
  << <<27145, 58983>>, <<47975, 44677>>, <<15470, 62322>>, <<42319, 62778>>,
     <<20750, 21119>>, <<39685, 26764>>, <<8067, 55723>>, <<23520, 52505>> >>

\* message padding: 0x80, zeros up to 56 mod 64, then the bit length as 8 big-endian bytes
RECURSIVE Zeros(_)
Zeros(n) == IF n = 0 THEN <<>> ELSE <<0>> \o Zeros(n - 1)

ShaPad(msg) ==
  LET n == Len(msg)
      z == (119 - (n % 64)) % 64
      bits == n * 8
  IN  msg \o <<128>> \o Zeros(z) \o <<0, 0, 0, 0, 0, 0, (bits \div 256) % 256, bits % 256>>

RECURSIVE Schedule(_, _)
Schedule(w, t) ==
  IF t > 64 THEN w
  ELSE Schedule(Append(w, W32Add(W32Add(SmallSigma1(w[t - 2]), w[t - 7]),
                                 W32Add(SmallSigma0(w[t - 15]), w[t - 16]))), t + 1)

BlockWords(blk) ==
  [i \in 1..16 |-> << blk[4 * i - 3] * 256 + blk[4 * i - 2], blk[4 * i - 1] * 256 + blk[4 * i] >>]

Round(s, k, wt) ==
  LET t1 == W32Add(W32Add(W32Add(s[8], BigSigma1(s[5])), W32Add(Ch(s[5], s[6], s[7]), k)), wt)
      t2 == W32Add(BigSigma0(s[1]), Maj(s[1], s[2], s[3]))
  IN  <<W32Add(t1, t2), s[1], s[2], s[3], W32Add(s[4], t1), s[5], s[6], s[7]>>

RECURSIVE Rounds(_, _, _)
Rounds(s, w, t) ==
  IF t > 64 \/ Len(s) # 8 THEN s
  ELSE Rounds(Round(s, ShaK[t], w[t]), w, t + 1)

Compress(h, blk) ==
  LET w == Schedule(BlockWords(blk), 17)
      s == Rounds(h, w, 1)
  IN  [i \in 1..8 |-> W32Add(h[i], s[i])]

RECURSIVE ShaBlocks(_, _)
ShaBlocks(h, p) ==
  IF Len(p) = 0 THEN h
  ELSE ShaBlocks(Compress(h, SubSeq(p, 1, 64)), SubSeq(p, 65, Len(p)))

Sum256(msg) ==
  LET h == ShaBlocks(ShaInit, ShaPad(msg))
  IN  [i \in 1..32 |->
        LET wd == h[(i - 1) \div 4 + 1]
            k == (i - 1) % 4
        IN  IF k = 0 THEN wd[1] \div 256
            ELSE IF k = 1 THEN wd[1] % 256
            ELSE IF k = 2 THEN wd[2] \div 256
            ELSE wd[2] % 256]

(***************************************************************************)
(* encoding/hex.  Text is a sequence of ASCII codes.                       *)
(***************************************************************************)
HexDigit(n) == IF n < 10 THEN 48 + n ELSE 87 + n

RECURSIVE HexEncodeToString(_)
HexEncodeToString(b) ==
  IF Len(b) = 0 THEN <<>>
  ELSE <<HexDigit(b[1] \div 16), HexDigit(b[1] % 16)>> \o HexEncodeToString(Tail(b))

\* fromHexChar: 0-9, a-f and A-F are digits, every other byte is invalid (-1)
FromHexChar(c) ==
  IF c >= 48 /\ c <= 57 THEN c - 48
  ELSE IF c >= 97 /\ c <= 102 THEN c - 87
  ELSE IF c >= 65 /\ c <= 70 THEN c - 55
  ELSE -1

RECURSIVE HexPairs(_)
HexPairs(s) ==
  IF Len(s) < 2 THEN <<>>
  ELSE <<FromHexChar(s[1]) * 16 + FromHexChar(s[2])>> \o HexPairs(SubSeq(s, 3, Len(s)))

\* hex.DecodeString: an invalid digit or an odd length is an error
HexDecodeString(s) ==
  IF (\E i \in 1..Len(s) : FromHexChar(s[i]) < 0) \/ Len(s) % 2 = 1
  THEN [err |-> "ErrInvalidHex", bytes |-> <<>>]
  ELSE [err |-> "nil", bytes |-> HexPairs(s)]

(***************************************************************************)
(* go-ethereum accounts/abi, as far as the worker uses it.                 *)
(* An ABI JSON text is the sequence of its entries, or Malformed.          *)
(* Go values: a [32]byte array, or a *big.Int held as its big-endian       *)
(* magnitude without leading zero bytes.                                   *)
(***************************************************************************)
Malformed == [wellFormed |-> FALSE, entries |-> <<>>]
AbiText(entries) == [wellFormed |-> TRUE, entries |-> entries]

SupportedTypes == {"bytes32", "uint256"}

RECURSIVE JoinTypes(_)
JoinTypes(ts) ==
  IF Len(ts) = 0 THEN ""
  ELSE IF Len(ts) = 1 THEN ts[1]
  ELSE ts[1] \o "," \o JoinTypes(Tail(ts))

\* Method.Sig: name(type,type,...)
Sig(name, inputs) == name \o "(" \o JoinTypes(inputs) \o ")"

\* first 4 bytes of Keccak-256 of the canonical signature
Keccak4 ==
  ("dummy()" :> <<50, 228, 58, 17>>) @@
  ("dummy(bytes32)" :> <<251, 131, 140, 192>>) @@
  ("dummy(uint256)" :> <<38, 35, 118, 27>>) @@
  ("dummy(bytes32,bytes32)" :> <<244, 165, 19, 163>>) @@
  ("dummy(bytes32,uint256)" :> <<49, 141, 246, 18>>) @@
  ("dummy(uint256,bytes32)" :> <<47, 188, 80, 237>>) @@
  ("dummy(uint256,uint256)" :> <<51, 86, 4, 232>>) @@
  ("core_issuePaymentCert(bytes32)" :> <<4, 145, 243, 64>>) @@
  ("core_issuePaymentCert(uint256)" :> <<105, 130, 52, 109>>)

NewMethod(name, inputs) ==
  [Name |-> name, Inputs |-> inputs, ID |-> Keccak4[Sig(name, inputs)]]

\* abi.JSON: fails on malformed text and on an unsupported argument type
AbiJSON(text) ==
  IF ~text.wellFormed
     \/ \E i \in 1..Len(text.entries) : \E j \in 1..Len(text.entries[i].inputs) :
          text.entries[i].inputs[j] \notin SupportedTypes
  THEN [err |-> "ErrParse", Methods |-> <<>>]
  ELSE [err |-> "nil",
        Methods |-> [i \in 1..Len(text.entries) |->
                       NewMethod(text.entries[i].name, text.entries[i].inputs)]]

\* parsedABI.Methods[name]: the method and the ok flag of the map lookup
HasMethod(parsed, name) == \E i \in 1..Len(parsed.Methods) : parsed.Methods[i].Name = name
LookupMethod(parsed, name) ==
  parsed.Methods[CHOOSE i \in 1..Len(parsed.Methods) : parsed.Methods[i].Name = name]

GoArray32(b) == [gotype |-> "[32]byte", val |-> b]
GoBigInt(m) == [gotype |-> "*big.Int", val |-> m]

RECURSIVE StripZeros(_)
StripZeros(b) ==
  IF Len(b) > 0 /\ b[1] = 0 THEN StripZeros(Tail(b)) ELSE b

\* common.LeftPadBytes / math.U256Bytes: the magnitude left-padded to 32 bytes
LeftPad32(m) == Zeros(32 - Len(m)) \o m

\* typeCheck: the Go kind of the value must be the kind of the ABI type
TypeCheck(ty, v) ==
  \/ ty = "bytes32" /\ v.gotype = "[32]byte" /\ Len(v.val) = 32
  \/ ty = "uint256" /\ v.gotype = "*big.Int"

\* Type.pack of one value that passed typeCheck
PackElement(ty, v) == IF ty = "bytes32" THEN v.val ELSE LeftPad32(v.val)

RECURSIVE PackAll(_, _)
PackAll(inputs, args) ==
  IF Len(inputs) = 0 THEN <<>>
  ELSE PackElement(inputs[1], args[1]) \o PackAll(Tail(inputs), Tail(args))

\* Arguments.Pack: count mismatch or a failed typeCheck returns (nil, err)
ArgumentsPack(inputs, args) ==
  IF Len(args) # Len(inputs) THEN [err |-> "ErrPack", bytes |-> <<>>]
  ELSE IF \E i \in 1..Len(inputs) : ~TypeCheck(inputs[i], args[i])
       THEN [err |-> "ErrPack", bytes |-> <<>>]
       ELSE [err |-> "nil", bytes |-> PackAll(inputs, args)]

\* toGoType on the word at byte offset 32 * (i - 1)
ToGoType(ty, word) ==
  IF ty = "bytes32" THEN GoArray32(word) ELSE GoBigInt(StripZeros(word))

\* Arguments.Unpack: empty data is an error when arguments are expected;
\* a word that does not fit is an error; bytes after the last word are ignored
ArgumentsUnpack(inputs, data) ==
  IF Len(data) = 0
  THEN IF Len(inputs) # 0 THEN [err |-> "ErrUnpack", args |-> <<>>]
       ELSE [err |-> "nil", args |-> <<>>]
  ELSE IF \E i \in 1..Len(inputs) : 32 * i > Len(data)
       THEN [err |-> "ErrUnpack", args |-> <<>>]
       ELSE [err |-> "nil",
             args |-> [i \in 1..Len(inputs) |->
                         ToGoType(inputs[i], SubSeq(data, 32 * i - 31, 32 * i))]]

(***************************************************************************)
(* Bounds of the model.                                                    *)
(***************************************************************************)
\* most 32-byte words in the argument region of a submitted payload
MaxWords == 2
\* most stray bytes after the last whole word of a submitted payload
MaxTail == 1

(***************************************************************************)
(* Constants of the source.                                                *)
(***************************************************************************)
methodSelectorLength == 4
expectedArgCount == 1
jsonRPCMethodName == "core_issuePaymentCert"
jsonRPCVersion == "2.0"
jsonContentType == "application/json"

dummyABIJSON == AbiText(<<[name |-> "dummy", inputs |-> <<"bytes32">>]>>)
contractABI == AbiText(<<[name |-> "core_issuePaymentCert", inputs |-> <<"bytes32">>]>>)

\* TaskWorkerConfig values: main's, the tests', and ones NewTaskWorker rejects
TaskWorkerConfigs ==
  { [ABIJSON |-> dummyABIJSON, Method |-> "dummy"],
    [ABIJSON |-> AbiText(<<[name |-> "dummy", inputs |-> <<"uint256">>]>>), Method |-> "dummy"],
    [ABIJSON |-> AbiText(<<[name |-> "dummy", inputs |-> <<"bytes32", "bytes32">>]>>), Method |-> "dummy"],
    [ABIJSON |-> AbiText(<<[name |-> "dummy", inputs |-> <<>>]>>), Method |-> "dummy"],
    [ABIJSON |-> contractABI, Method |-> "dummy"],
    [ABIJSON |-> AbiText(<<[name |-> "dummy", inputs |-> <<"float">>]>>), Method |-> "dummy"],
    [ABIJSON |-> Malformed, Method |-> "dummy"] }

NoConfig == [ABIJSON |-> Malformed, Method |-> ""]
RPCServerURL == "http://localhost:3000"

Launches ==
  { [variant |-> "config", cfg |-> c] : c \in TaskWorkerConfigs }
  \cup { [variant |-> v, cfg |-> NoConfig] : v \in {"fixed", "remote", "hextext"} }

(***************************************************************************)
(* Requests, responses and the outcome of a call.                          *)
(***************************************************************************)
NoMethod == [Name |-> "", Inputs |-> <<>>, ID |-> <<>>]
NoWorker == [variant |-> "none", method |-> NoMethod, config |-> [RPCServerURL |-> ""]]
NoRequest == [TaskId |-> <<>>, Payload |-> <<>>, Metadata |-> <<>>]
NoResponse == [TaskId |-> <<>>, Result |-> <<>>]

\* a call that returns the error e (nil response)
Fail(e) ==
  [err |-> e, hasResp |-> FALSE, resp |-> NoResponse, args |-> <<>>,
   panic |-> FALSE, got |-> 0, want |-> 0, posts |-> <<>>]

\* a call that returns (nil error)
Pass == [Fail("nil") EXCEPT !.err = "nil"]

\* a call that does not return: runtime panic in the handler
Panics == [Fail("panic") EXCEPT !.panic = TRUE]

NoCall == [op |-> "none", out |-> Pass]

\* variant of equalBytes that compares the lengths only
equalBytesLengthOnly(a, b) == Len(a) = Len(b)

equalBytes(a, b) == Len(a) = Len(b) /\ a = b

\* strings.HasPrefix
HasPrefix(str, prefix) ==
  Len(str) >= Len(prefix) /\ SubSeq(str, 1, Len(prefix)) = prefix

(***************************************************************************)
(* Revision "config": the ABI and the method come from TaskWorkerConfig.   *)
(***************************************************************************)
\* variant of NewTaskWorkerConfig that does not test the ok flag of the method lookup
NewTaskWorkerConfigNoLookup(cfg) ==
  LET parsedABI == AbiJSON(cfg.ABIJSON)
  IN  IF parsedABI.err # "nil" THEN [err |-> "ErrParse", worker |-> NoWorker]
      ELSE [err |-> "nil",
            worker |-> [NoWorker EXCEPT !.variant = "config",
                                        !.method = IF HasMethod(parsedABI, cfg.Method)
                                                   THEN LookupMethod(parsedABI, cfg.Method)
                                                   ELSE NoMethod]]

NewTaskWorkerConfig(cfg) ==
  LET parsedABI == AbiJSON(cfg.ABIJSON)
  IN  IF parsedABI.err # "nil" THEN [err |-> "ErrParse", worker |-> NoWorker]
      ELSE IF ~HasMethod(parsedABI, cfg.Method)
           THEN [err |-> "ErrMethodNotFound", worker |-> NoWorker]
           ELSE [err |-> "nil",
                 worker |-> [NoWorker EXCEPT !.variant = "config",
                                             !.method = LookupMethod(parsedABI, cfg.Method)]]

\* variant of ValidateArguments that takes the expected length, the argument count
\* and the argument types from the method's declaration
ValidateArgumentsGeneric(method, encodedArgs) ==
  LET unpacked == ArgumentsUnpack(method.Inputs, encodedArgs)
  IN  IF Len(encodedArgs) # 32 * Len(method.Inputs)
      THEN [Fail("ErrLengthMismatch") EXCEPT !.got = Len(encodedArgs),
                                             !.want = 32 * Len(method.Inputs)]
      ELSE IF unpacked.err # "nil" /\ Len(method.Inputs) > 0 THEN Fail("ErrDecodeFailed")
      ELSE Pass

\* variant of ValidateArguments without the length check of the argument region
ValidateArgumentsNoLength(method, encodedArgs) ==
  LET unpacked == ArgumentsUnpack(method.Inputs, encodedArgs)
  IN  IF unpacked.err # "nil" THEN Fail("ErrDecodeFailed")
      ELSE IF Len(unpacked.args) # 1
           THEN [Fail("ErrArityMismatch") EXCEPT !.got = Len(unpacked.args), !.want = 1]
      ELSE IF unpacked.args[1].gotype # "[32]byte" THEN Fail("ErrTypeMismatch")
      ELSE Pass

\* variant of ValidateArguments that compares the number of decoded arguments
\* with the number of declared ones
ValidateArgumentsDeclaredCount(method, encodedArgs) ==
  LET expectedArgEncoding == ArgumentsPack(method.Inputs, <<GoArray32(Zeros(32))>>).bytes
      unpacked == ArgumentsUnpack(method.Inputs, encodedArgs)
  IN  IF Len(encodedArgs) # Len(expectedArgEncoding)
      THEN [Fail("ErrLengthMismatch") EXCEPT !.got = Len(encodedArgs),
                                             !.want = Len(expectedArgEncoding)]
      ELSE IF unpacked.err # "nil" THEN Fail("ErrDecodeFailed")
      ELSE IF Len(unpacked.args) # Len(method.Inputs)
           THEN [Fail("ErrArityMismatch") EXCEPT !.got = Len(unpacked.args),
                                                 !.want = Len(method.Inputs)]
      ELSE IF \E i \in 1..Len(unpacked.args) : unpacked.args[i].gotype # "[32]byte"
           THEN Fail("ErrTypeMismatch")
      ELSE Pass

\* the checks after the selector check, shared by the "config" and "fixed" revisions:
\* length against Pack([32]byte{}) (its error is dropped, nil has length 0),
\* Unpack, exactly one argument, of Go type [32]byte
ValidateArguments(method, encodedArgs) ==
  LET expectedArgEncoding == ArgumentsPack(method.Inputs, <<GoArray32(Zeros(32))>>).bytes
      unpacked == ArgumentsUnpack(method.Inputs, encodedArgs)
  IN  IF Len(encodedArgs) # Len(expectedArgEncoding)
      THEN [Fail("ErrLengthMismatch") EXCEPT !.got = Len(encodedArgs),
                                             !.want = Len(expectedArgEncoding)]
      ELSE IF unpacked.err # "nil" THEN Fail("ErrDecodeFailed")
      ELSE IF Len(unpacked.args) # 1
           THEN [Fail("ErrArityMismatch") EXCEPT !.got = Len(unpacked.args), !.want = 1]
      ELSE IF unpacked.args[1].gotype # "[32]byte" THEN Fail("ErrTypeMismatch")
      ELSE Pass

\* variant of ValidateTaskConfig that stops after the selector check
ValidateTaskConfigSelectorOnly(tw, t) ==
  IF Len(t.Payload) < 4 THEN Fail("ErrShortPayload")
  ELSE IF ~equalBytes(SubSeq(t.Payload, 1, 4), tw.method.ID) THEN Fail("ErrSelectorMismatch")
  ELSE Pass

ValidateTaskConfig(tw, t) ==
  IF Len(t.Payload) < 4 THEN Fail("ErrShortPayload")
  ELSE IF ~equalBytes(SubSeq(t.Payload, 1, 4), tw.method.ID) THEN Fail("ErrSelectorMismatch")
  ELSE ValidateArguments(tw.method, SubSeq(t.Payload, 5, Len(t.Payload)))

\* variant of DigestResponse that leaves the TaskId of the response unset
DigestResponseNoTaskId(t, hashed, args) ==
  [Pass EXCEPT !.hasResp = TRUE,
               !.resp = [TaskId |-> <<>>,
                         Result |-> HexEncodeToString(Sum256(hashed))],
               !.args = args]

\* the digest strategy: lowercase hex of SHA-256 over the bytes hashed
DigestResponse(t, hashed, args) ==
  [Pass EXCEPT !.hasResp = TRUE,
               !.resp = [TaskId |-> t.TaskId,
                         Result |-> HexEncodeToString(Sum256(hashed))],
               !.args = args]

\* Unpack, one argument, [32]byte: the decode steps every HandleTask shares
DecodeTxHash(method, encodedArgs) ==
  LET unpacked == ArgumentsUnpack(method.Inputs, encodedArgs)
  IN  IF unpacked.err # "nil" THEN Fail("ErrDecodeFailed")
      ELSE IF Len(unpacked.args) # 1
           THEN [Fail("ErrArityMismatch") EXCEPT !.got = Len(unpacked.args), !.want = 1]
      ELSE IF unpacked.args[1].gotype # "[32]byte" THEN Fail("ErrTypeMismatch")
      ELSE [Pass EXCEPT !.args = unpacked.args]

\* variant of HandleTaskConfig that unpacks the payload without skipping the selector
HandleTaskConfigNoSkip(tw, t) ==
  IF Len(t.Payload) < 4 THEN Fail("ErrShortPayload")
  ELSE LET decoded == DecodeTxHash(tw.method, t.Payload)
       IN  IF decoded.err # "nil" THEN decoded
           ELSE DigestResponse(t, t.Payload, decoded.args)

\* variant of HandleTaskConfig that hashes the decoded argument, not the payload
HandleTaskConfigHashArg(tw, t) ==
  IF Len(t.Payload) < 4 THEN Fail("ErrShortPayload")
  ELSE LET decoded == DecodeTxHash(tw.method, SubSeq(t.Payload, 5, Len(t.Payload)))
       IN  IF decoded.err # "nil" THEN decoded
           ELSE DigestResponse(t, decoded.args[1].val, decoded.args)

HandleTaskConfig(tw, t) ==
  IF Len(t.Payload) < 4 THEN Fail("ErrShortPayload")
  ELSE LET decoded == DecodeTxHash(tw.method, SubSeq(t.Payload, 5, Len(t.Payload)))
       IN  IF decoded.err # "nil" THEN decoded
           ELSE DigestResponse(t, t.Payload, decoded.args)

(***************************************************************************)
(* Revision "fixed": dummy(bytes32) is parsed inside every call.           *)
(***************************************************************************)
ValidateTaskFixed(tw, t) ==
  LET parsedABI == AbiJSON(dummyABIJSON)
  IN  IF parsedABI.err # "nil" THEN Fail("ErrParse")
      ELSE IF ~HasMethod(parsedABI, "dummy") THEN Fail("ErrMethodNotFound")
      ELSE LET method == LookupMethod(parsedABI, "dummy")
               expectedSelector == method.ID
           IN  IF Len(t.Payload) < 4
                  \/ ~HasPrefix(HexEncodeToString(SubSeq(t.Payload, 1, 4)),
                                HexEncodeToString(expectedSelector))
               THEN Fail("ErrSelectorMismatch")
               ELSE ValidateArguments(method, SubSeq(t.Payload, 5, Len(t.Payload)))

HandleTaskFixed(tw, t) ==
  LET parsedABI == AbiJSON(dummyABIJSON)
  IN  IF parsedABI.err # "nil" THEN Fail("ErrParse")
      ELSE IF ~HasMethod(parsedABI, "dummy") THEN Fail("ErrMethodNotFound")
      ELSE IF Len(t.Payload) < 4 THEN Fail("ErrShortPayload")
      ELSE LET method == LookupMethod(parsedABI, "dummy")
               decoded == DecodeTxHash(method, SubSeq(t.Payload, 5, Len(t.Payload)))
           IN  IF decoded.err # "nil" THEN decoded
               ELSE DigestResponse(t, t.Payload, decoded.args)

(***************************************************************************)
(* Revision "hextext": the payload is hexadecimal text.                    *)
(***************************************************************************)
ValidateTaskHextext(tw, t) == Pass

\* variant of HandleTaskHextext that hashes the decoded payload, selector included
HandleTaskHextextHashPayload(tw, t) ==
  LET parsedABI == AbiJSON(dummyABIJSON)
      decodedHex == HexDecodeString(t.Payload)
      payload == decodedHex.bytes
  IN  IF parsedABI.err # "nil" THEN Fail("ErrParse")
      ELSE IF decodedHex.err # "nil" THEN Fail("ErrInvalidHex")
      ELSE IF ~HasMethod(parsedABI, "dummy") THEN Fail("ErrMethodNotFound")
      ELSE IF Len(payload) < 4 THEN Panics
      ELSE LET method == LookupMethod(parsedABI, "dummy")
               decoded == DecodeTxHash(method, SubSeq(payload, 5, Len(payload)))
           IN  IF decoded.err # "nil" THEN decoded
               ELSE DigestResponse(t, payload, decoded.args)

\* payload[4:] of a slice shorter than 4 bytes is a runtime panic
HandleTaskHextext(tw, t) ==
  LET parsedABI == AbiJSON(dummyABIJSON)
      decodedHex == HexDecodeString(t.Payload)
      payload == decodedHex.bytes
  IN  IF parsedABI.err # "nil" THEN Fail("ErrParse")
      ELSE IF decodedHex.err # "nil" THEN Fail("ErrInvalidHex")
      ELSE IF ~HasMethod(parsedABI, "dummy") THEN Fail("ErrMethodNotFound")
      ELSE IF Len(payload) < 4 THEN Panics
      ELSE LET method == LookupMethod(parsedABI, "dummy")
               decoded == DecodeTxHash(method, SubSeq(payload, 5, Len(payload)))
           IN  IF decoded.err # "nil" THEN decoded
               ELSE DigestResponse(t, decoded.args[1].val, decoded.args)

(***************************************************************************)
(* Revision "remote": the argument is forwarded to a JSON-RPC server.      *)
(***************************************************************************)
\* ValidateTask looks the method "dummy" up in the ABI of core_issuePaymentCert
ValidateTaskRemote(tw, t) ==
  LET parsedABI == AbiJSON(contractABI)
  IN  IF parsedABI.err # "nil" THEN Fail("ErrParse")
      ELSE IF ~HasMethod(parsedABI, "dummy") THEN Fail("ErrMethodNotFound")
      ELSE IF Len(t.Payload) < methodSelectorLength THEN Fail("ErrShortPayload")
      ELSE LET method == LookupMethod(parsedABI, "dummy")
               unpacked == ArgumentsUnpack(method.Inputs,
                             SubSeq(t.Payload, methodSelectorLength + 1, Len(t.Payload)))
           IN  IF unpacked.err # "nil" THEN Fail("ErrDecodeFailed")
               ELSE IF Len(unpacked.args) # expectedArgCount
                    THEN [Fail("ErrArityMismatch") EXCEPT !.got = Len(unpacked.args),
                                                          !.want = expectedArgCount]
               ELSE Pass

\* variant of HexParam without the "0x" prefix
HexParamNoPrefix(txHash) == HexEncodeToString(txHash)

\* fmt.Sprintf("0x%x", txHash)
HexParam(txHash) == <<48, 120>> \o HexEncodeToString(txHash)

\* what the network and the server do with one POST: the connection fails,
\* the body cannot be read, or the server answers (echoing the parameter as
\* the tests' mock server does, or with a body of its own)
NetOutcomes ==
  { [kind |-> "unreachable", status |-> 0, echo |-> FALSE, body |-> <<>>],
    [kind |-> "unreadable", status |-> 200, echo |-> FALSE, body |-> <<>>] }
  \cup { [kind |-> "answer", status |-> st, echo |-> e, body |-> b] :
           st \in {200, 500}, e \in BOOLEAN, b \in {<<>>, <<123, 125>>} }

ServerBody(net, data) ==
  IF net.echo THEN <<34>> \o data.params[1] \o <<34>> ELSE net.body

\* variant of Forward that sends the request a second time when the first
\* attempt did not yield a body
ForwardWithRetry(tw, t, args, net) ==
  LET jsonPayload == [jsonrpc |-> jsonRPCVersion,
                      method |-> jsonRPCMethodName,
                      params |-> <<HexParam(args[1].val)>>,
                      id |-> 1]
      post == [url |-> tw.config.RPCServerURL,
               contentType |-> jsonContentType,
               data |-> jsonPayload,
               reply |-> [kind |-> net.kind, status |-> net.status,
                          body |-> ServerBody(net, jsonPayload)]]
  IN  IF net.kind = "unreachable"
      THEN [Fail("ErrRemoteUnavailable") EXCEPT !.posts = <<post, post>>, !.args = args]
      ELSE IF net.kind = "unreadable"
      THEN [Fail("ErrRemoteResponse") EXCEPT !.posts = <<post, post>>, !.args = args]
      ELSE [Pass EXCEPT !.hasResp = TRUE,
                        !.resp = [TaskId |-> t.TaskId, Result |-> post.reply.body],
                        !.args = args,
                        !.posts = <<post>>]

\* json.Marshal, http.Post, io.ReadAll: one request; the exchange is recorded
\* with what the network and the server made of it
Forward(tw, t, args, net) ==
  LET jsonPayload == [jsonrpc |-> jsonRPCVersion,
                      method |-> jsonRPCMethodName,
                      params |-> <<HexParam(args[1].val)>>,
                      id |-> 1]
      post == [url |-> tw.config.RPCServerURL,
               contentType |-> jsonContentType,
               data |-> jsonPayload,
               reply |-> [kind |-> net.kind, status |-> net.status,
                          body |-> ServerBody(net, jsonPayload)]]
  IN  IF net.kind = "unreachable"
      THEN [Fail("ErrRemoteUnavailable") EXCEPT !.posts = <<post>>, !.args = args]
      ELSE IF net.kind = "unreadable"
      THEN [Fail("ErrRemoteResponse") EXCEPT !.posts = <<post>>, !.args = args]
      ELSE [Pass EXCEPT !.hasResp = TRUE,
                        !.resp = [TaskId |-> t.TaskId, Result |-> post.reply.body],
                        !.args = args,
                        !.posts = <<post>>]

HandleTaskRemote(tw, t, net) ==
  LET parsedABI == AbiJSON(contractABI)
  IN  IF parsedABI.err # "nil" THEN Fail("ErrParse")
      ELSE IF ~HasMethod(parsedABI, jsonRPCMethodName) THEN Fail("ErrMethodNotFound")
      ELSE IF Len(t.Payload) < methodSelectorLength THEN Fail("ErrShortPayload")
      ELSE LET method == LookupMethod(parsedABI, jsonRPCMethodName)
               decoded == DecodeTxHash(method,
                            SubSeq(t.Payload, methodSelectorLength + 1, Len(t.Payload)))
           IN  IF decoded.err # "nil" THEN decoded
               ELSE Forward(tw, t, decoded.args, net)

(***************************************************************************)
(* The tasks the transport delivers.  A payload is built from a selector   *)
(* (of some method, possibly with one byte changed, possibly cut short),   *)
(* the packed encoding of some values and stray bytes after them; it is    *)
(* sent as it is or as hexadecimal text.                                   *)
(***************************************************************************)
txHash ==
  << 18, 52, 86, 120, 144, 171, 205, 239, 18, 52, 86, 120, 144, 171, 205, 239,
     18, 52, 86, 120, 144, 171, 205, 239, 18, 52, 86, 120, 144, 171, 205, 239 >>

\* common.HexToHash("0x1234...cdef") and big.NewInt(123) of the tests
SampleValues ==
  { [ty |-> "bytes32", go |-> GoArray32(txHash)],
    [ty |-> "uint256", go |-> GoBigInt(<<123>>)] }

ValueSeqs == UNION { [1..k -> SampleValues] : k \in 0..MaxWords }

TaskIds == { <<116, 49>> }
Metadatas == { <<109>> }

\* the method a worker's payloads are meant for
DeclaredMethod(tw) ==
  IF tw.variant = "config" THEN tw.method
  ELSE IF tw.variant = "remote" THEN NewMethod(jsonRPCMethodName, <<"bytes32">>)
  ELSE NewMethod("dummy", <<"bytes32">>)

PackerMethods ==
  { NewMethod("dummy", <<"bytes32">>),
    NewMethod("dummy", <<"uint256">>),
    NewMethod("dummy", <<"bytes32", "bytes32">>) }

\* selector bytes of a choice: the method ID, its byte number flip changed
SelectorBytes(c) ==
  [i \in 1..4 |-> IF i = c.flip THEN (c.method.ID[i] + 1) % 256 ELSE c.method.ID[i]]

SelectorChoices(tw) ==
  { [method |-> m, flip |-> 0] : m \in PackerMethods \cup {DeclaredMethod(tw)} }
  \cup { [method |-> DeclaredMethod(tw), flip |-> 4] }

TypesOf(vals) == [i \in 1..Len(vals) |-> vals[i].ty]
GoValues(vals) == [i \in 1..Len(vals) |-> vals[i].go]

RawPayload(c, nsel, vals, tail) ==
  IF nsel < 4 THEN SubSeq(SelectorBytes(c), 1, nsel)
  ELSE SelectorBytes(c) \o PackAll(TypesOf(vals), GoValues(vals)) \o [i \in 1..tail |-> 255]

NoOrigin ==
  [submitted |-> FALSE, sel |-> [method |-> NoMethod, flip |-> 0], nsel |-> 0,
   vals |-> <<>>, tail |-> 0, text |-> FALSE, id |-> <<>>, md |-> <<>>]

(***************************************************************************)
(* State.                                                                  *)
(***************************************************************************)
VARIABLES
  launch,   \* the revision that runs and the configuration main gives it
  phase,    \* "boot", "serving", "fatal" (main gave up) or "crashed" (panic)
  worker,   \* the TaskWorker: NoWorker until NewTaskWorker returned it
  req,      \* the TaskRequest the transport delivered last
  origin,   \* how its payload was built (history variable)
  last,     \* the last call on the worker and its outcome
  calls,    \* the calls in progress, one per serving goroutine, statement by statement
  first     \* a HandleTask call remembered with its outcome (history variable)

vars == <<launch, phase, worker, req, origin, last, calls, first>>

\* goroutines of the server that run calls on the one worker at the same time
Slots == {1, 2}

\* a call in progress: the statement it is at and its local variables
IdleCall ==
  [pc |-> "idle", op |-> "none", t |-> NoRequest, encodedArgs |-> <<>>, args |-> <<>>,
   out |-> Pass]

NoFirst == [set |-> FALSE, t |-> NoRequest, out |-> Pass, between |-> FALSE]

Init ==
  /\ launch \in Launches
  /\ phase = "boot"
  /\ worker = NoWorker
  /\ req = NoRequest
  /\ origin = NoOrigin
  /\ last = NoCall
  /\ calls = [i \in Slots |-> IdleCall]
  /\ first = NoFirst

\* NewTaskWorker of the other revisions cannot fail
NewTaskWorkerPlain(variant) ==
  [err |-> "nil",
   worker |-> [NoWorker EXCEPT !.variant = variant,
                               !.config = [RPCServerURL |->
                                             IF variant = "remote" THEN RPCServerURL ELSE ""]]]

\* main: construct the worker; a construction error is fatal
Main ==
  /\ phase = "boot"
  /\ LET made == IF launch.variant = "config" THEN NewTaskWorkerConfig(launch.cfg)
                 ELSE NewTaskWorkerPlain(launch.variant)
     IN  /\ worker' = made.worker
         /\ phase' = IF made.err = "nil" THEN "serving" ELSE "fatal"
         /\ last' = [op |-> "NewTaskWorker", out |-> Fail(made.err)]
  /\ UNCHANGED <<launch, req, origin, calls, first>>

\* payloads arrive as bytes; the "hextext" revision is also sent hexadecimal text
TextChoices(tw) == IF tw.variant = "hextext" THEN BOOLEAN ELSE {FALSE}

\* the transport hands the worker a task
SubmitTask ==
  /\ phase = "serving"
  /\ ~origin.submitted
  /\ \E c \in SelectorChoices(worker), nsel \in 0..4, vals \in ValueSeqs,
        tail \in 0..MaxTail, text \in TextChoices(worker), id \in TaskIds, md \in Metadatas :
       /\ nsel < 4 => (c.flip = 0 /\ c.method = DeclaredMethod(worker)
                       /\ vals = <<>> /\ tail = 0)
       /\ LET raw == RawPayload(c, nsel, vals, tail)
          IN  req' = [TaskId |-> id,
                      Payload |-> IF text THEN HexEncodeToString(raw) ELSE raw,
                      Metadata |-> md]
       /\ origin' = [submitted |-> TRUE, sel |-> c, nsel |-> nsel, vals |-> vals,
                     tail |-> tail, text |-> text, id |-> id, md |-> md]
  /\ last' = NoCall
  /\ UNCHANGED <<launch, phase, worker, calls, first>>

\* task ids and metadata of the sample tasks ("t1", "t2"; none, "m")
SampleTaskIds == { <<116, 49>>, <<116, 50>> }
SampleMetadatas == { <<>>, <<109>> }

\* the transport hands the worker one of the tasks the tests send: the packed call
\* of the worker's method with the sample hash, the selector alone, a cut selector
SubmitSampleTask ==
  /\ phase = "serving"
  /\ ~origin.submitted
  /\ \E nsel \in {2, 4}, n \in 0..1, id \in SampleTaskIds, md \in SampleMetadatas :
       LET c == [method |-> DeclaredMethod(worker), flip |-> 0]
           vals == [i \in 1..n |-> [ty |-> "bytes32", go |-> GoArray32(txHash)]]
           text == worker.variant = "hextext"
           raw == RawPayload(c, nsel, vals, 0)
       IN  /\ nsel < 4 => n = 0
           /\ req' = [TaskId |-> id,
                      Payload |-> IF text THEN HexEncodeToString(raw) ELSE raw,
                      Metadata |-> md]
           /\ origin' = [submitted |-> TRUE, sel |-> c, nsel |-> nsel, vals |-> vals,
                         tail |-> 0, text |-> text, id |-> id, md |-> md]
  /\ last' = NoCall
  /\ UNCHANGED <<launch, phase, worker, calls, first>>

\* the transport has its answer and drops the task: nothing of it is retained
ReleaseTask ==
  /\ phase = "serving"
  /\ origin.submitted
  /\ last.op \in {"ValidateTask", "HandleTask"}
  /\ req' = NoRequest
  /\ origin' = NoOrigin
  /\ last' = NoCall
  /\ UNCHANGED <<launch, phase, worker, calls, first>>

\* a call: the worker computes the outcome; a panic ends the process
Call(op, out) ==
  /\ last' = [op |-> op, out |-> out]
  /\ phase' = IF out.panic THEN "crashed" ELSE phase
  /\ UNCHANGED <<launch, worker, req, origin, calls, first>>

Ready(variant) ==
  phase = "serving" /\ origin.submitted /\ worker.variant = variant

CallValidateTaskConfig == Ready("config") /\ Call("ValidateTask", ValidateTaskConfig(worker, req))
CallHandleTaskConfig == Ready("config") /\ Call("HandleTask", HandleTaskConfig(worker, req))
CallValidateTaskFixed == Ready("fixed") /\ Call("ValidateTask", ValidateTaskFixed(worker, req))
CallHandleTaskFixed == Ready("fixed") /\ Call("HandleTask", HandleTaskFixed(worker, req))
CallValidateTaskHextext == Ready("hextext") /\ Call("ValidateTask", ValidateTaskHextext(worker, req))
CallHandleTaskHextext == Ready("hextext") /\ Call("HandleTask", HandleTaskHextext(worker, req))
CallValidateTaskRemote == Ready("remote") /\ Call("ValidateTask", ValidateTaskRemote(worker, req))
CallHandleTaskRemote ==
  /\ Ready("remote")
  /\ \E net \in NetOutcomes : Call("HandleTask", HandleTaskRemote(worker, req, net))

Next ==
  \/ Main
  \/ SubmitTask
  \/ ReleaseTask
  \/ CallValidateTaskConfig
  \/ CallHandleTaskConfig
  \/ CallValidateTaskFixed
  \/ CallHandleTaskFixed
  \/ CallValidateTaskHextext
  \/ CallHandleTaskHextext
  \/ CallValidateTaskRemote
  \/ CallHandleTaskRemote

Spec == Init /\ [][Next]_vars

\* the same workers, served the sample tasks
NextSample ==
  \/ Main
  \/ SubmitSampleTask
  \/ ReleaseTask
  \/ CallValidateTaskConfig
  \/ CallHandleTaskConfig
  \/ CallValidateTaskFixed
  \/ CallHandleTaskFixed
  \/ CallValidateTaskHextext
  \/ CallHandleTaskHextext
  \/ CallValidateTaskRemote
  \/ CallHandleTaskRemote

SpecSample == Init /\ [][NextSample]_vars

(***************************************************************************)
(* Revision "config", statement by statement.  The server runs every call  *)
(* in a goroutine of its own on the one *TaskWorker; a step is one         *)
(* statement (one check) of ValidateTask or HandleTask.  A step gets the   *)
(* worker and the call's locals and yields both as the statement leaves    *)
(* them: tw is a pointer receiver.                                         *)
(***************************************************************************)
\* the call ends and returns out
Return(tw, c, out) == [tw |-> tw, c |-> [c EXCEPT !.pc = "done", !.out = out]]

\* the call goes on with the statement pc
Goto(tw, c, pc) == [tw |-> tw, c |-> [c EXCEPT !.pc = pc]]

\* variant of ValidateTaskStep that answers an accepted payload with its digest
ValidateTaskStepDigest(tw, c) ==
  CASE c.pc = "start" ->
         IF Len(c.t.Payload) < 4 THEN Return(tw, c, Fail("ErrShortPayload"))
         ELSE Goto(tw, c, "selector")
    [] c.pc = "selector" ->
         IF ~equalBytes(SubSeq(c.t.Payload, 1, 4), tw.method.ID)
         THEN Return(tw, c, Fail("ErrSelectorMismatch"))
         ELSE Goto(tw, [c EXCEPT !.encodedArgs = SubSeq(c.t.Payload, 5, Len(c.t.Payload))],
                   "length")
    [] c.pc = "length" ->
         LET expectedArgEncoding ==
               ArgumentsPack(tw.method.Inputs, <<GoArray32(Zeros(32))>>).bytes
         IN  IF Len(c.encodedArgs) # Len(expectedArgEncoding)
             THEN Return(tw, c, [Fail("ErrLengthMismatch")
                                   EXCEPT !.got = Len(c.encodedArgs),
                                          !.want = Len(expectedArgEncoding)])
             ELSE Goto(tw, c, "unpack")
    [] c.pc = "unpack" ->
         LET unpacked == ArgumentsUnpack(tw.method.Inputs, c.encodedArgs)
         IN  IF unpacked.err # "nil" THEN Return(tw, c, Fail("ErrDecodeFailed"))
             ELSE Goto(tw, [c EXCEPT !.args = unpacked.args], "count")
    [] c.pc = "count" ->
         IF Len(c.args) # 1
         THEN Return(tw, c, [Fail("ErrArityMismatch") EXCEPT !.got = Len(c.args), !.want = 1])
         ELSE Goto(tw, c, "type")
    [] c.pc = "type" ->
         IF c.args[1].gotype # "[32]byte" THEN Return(tw, c, Fail("ErrTypeMismatch"))
         ELSE Return(tw, c, DigestResponse(c.t, c.t.Payload, c.args))

ValidateTaskStep(tw, c) ==
  CASE c.pc = "start" ->
         IF Len(c.t.Payload) < 4 THEN Return(tw, c, Fail("ErrShortPayload"))
         ELSE Goto(tw, c, "selector")
    [] c.pc = "selector" ->
         IF ~equalBytes(SubSeq(c.t.Payload, 1, 4), tw.method.ID)
         THEN Return(tw, c, Fail("ErrSelectorMismatch"))
         ELSE Goto(tw, [c EXCEPT !.encodedArgs = SubSeq(c.t.Payload, 5, Len(c.t.Payload))],
                   "length")
    [] c.pc = "length" ->
         LET expectedArgEncoding ==
               ArgumentsPack(tw.method.Inputs, <<GoArray32(Zeros(32))>>).bytes
         IN  IF Len(c.encodedArgs) # Len(expectedArgEncoding)
             THEN Return(tw, c, [Fail("ErrLengthMismatch")
                                   EXCEPT !.got = Len(c.encodedArgs),
                                          !.want = Len(expectedArgEncoding)])
             ELSE Goto(tw, c, "unpack")
    [] c.pc = "unpack" ->
         LET unpacked == ArgumentsUnpack(tw.method.Inputs, c.encodedArgs)
         IN  IF unpacked.err # "nil" THEN Return(tw, c, Fail("ErrDecodeFailed"))
             ELSE Goto(tw, [c EXCEPT !.args = unpacked.args], "count")
    [] c.pc = "count" ->
         IF Len(c.args) # 1
         THEN Return(tw, c, [Fail("ErrArityMismatch") EXCEPT !.got = Len(c.args), !.want = 1])
         ELSE Goto(tw, c, "type")
    [] c.pc = "type" ->
         IF c.args[1].gotype # "[32]byte" THEN Return(tw, c, Fail("ErrTypeMismatch"))
         ELSE Return(tw, c, Pass)

\* variant of HandleTaskStep that decodes only when the worker holds no decoded
\* arguments yet and keeps them in the worker
HandleTaskStepCachedArgs(tw, c) ==
  CASE c.pc = "start" ->
         IF Len(c.t.Payload) < 4 THEN Return(tw, c, Fail("ErrShortPayload"))
         ELSE Goto(tw, c, "unpack")
    [] c.pc = "unpack" ->
         LET unpacked ==
               ArgumentsUnpack(tw.method.Inputs, SubSeq(c.t.Payload, 5, Len(c.t.Payload)))
         IN  IF "args" \in DOMAIN tw THEN Goto(tw, [c EXCEPT !.args = tw.args], "count")
             ELSE IF unpacked.err # "nil" THEN Return(tw, c, Fail("ErrDecodeFailed"))
             ELSE Goto([variant |-> tw.variant, method |-> tw.method, config |-> tw.config,
                        args |-> unpacked.args],
                       [c EXCEPT !.args = unpacked.args], "count")
    [] c.pc = "count" ->
         IF Len(c.args) # 1
         THEN Return(tw, c, [Fail("ErrArityMismatch") EXCEPT !.got = Len(c.args), !.want = 1])
         ELSE Goto(tw, c, "type")
    [] c.pc = "type" ->
         IF c.args[1].gotype # "[32]byte" THEN Return(tw, c, Fail("ErrTypeMismatch"))
         ELSE Goto(tw, c, "hash")
    [] c.pc = "hash" -> Return(tw, c, DigestResponse(c.t, c.t.Payload, c.args))

\* variant of HandleTaskStep that keeps the payload being handled in the worker
\* and hashes what the worker holds
HandleTaskStepSharedPayload(tw, c) ==
  CASE c.pc = "start" ->
         IF Len(c.t.Payload) < 4 THEN Return(tw, c, Fail("ErrShortPayload"))
         ELSE Goto([variant |-> tw.variant, method |-> tw.method, config |-> tw.config,
                    payload |-> c.t.Payload], c, "unpack")
    [] c.pc = "unpack" ->
         LET unpacked ==
               ArgumentsUnpack(tw.method.Inputs, SubSeq(c.t.Payload, 5, Len(c.t.Payload)))
         IN  IF unpacked.err # "nil" THEN Return(tw, c, Fail("ErrDecodeFailed"))
             ELSE Goto(tw, [c EXCEPT !.args = unpacked.args], "count")
    [] c.pc = "count" ->
         IF Len(c.args) # 1
         THEN Return(tw, c, [Fail("ErrArityMismatch") EXCEPT !.got = Len(c.args), !.want = 1])
         ELSE Goto(tw, c, "type")
    [] c.pc = "type" ->
         IF c.args[1].gotype # "[32]byte" THEN Return(tw, c, Fail("ErrTypeMismatch"))
         ELSE Goto(tw, c, "hash")
    [] c.pc = "hash" -> Return(tw, c, DigestResponse(c.t, tw.payload, c.args))

HandleTaskStep(tw, c) ==
  CASE c.pc = "start" ->
         IF Len(c.t.Payload) < 4 THEN Return(tw, c, Fail("ErrShortPayload"))
         ELSE Goto(tw, c, "unpack")
    [] c.pc = "unpack" ->
         LET unpacked ==
               ArgumentsUnpack(tw.method.Inputs, SubSeq(c.t.Payload, 5, Len(c.t.Payload)))
         IN  IF unpacked.err # "nil" THEN Return(tw, c, Fail("ErrDecodeFailed"))
             ELSE Goto(tw, [c EXCEPT !.args = unpacked.args], "count")
    [] c.pc = "count" ->
         IF Len(c.args) # 1
         THEN Return(tw, c, [Fail("ErrArityMismatch") EXCEPT !.got = Len(c.args), !.want = 1])
         ELSE Goto(tw, c, "type")
    [] c.pc = "type" ->
         IF c.args[1].gotype # "[32]byte" THEN Return(tw, c, Fail("ErrTypeMismatch"))
         ELSE Goto(tw, c, "hash")
    [] c.pc = "hash" -> Return(tw, c, DigestResponse(c.t, c.t.Payload, c.args))

\* the tasks these calls are given: the packed call of the worker's method with the
\* sample hash, the same under a selector changed in its last byte, the selector
\* alone, a cut selector
StepTasks(tw) ==
  LET own == [method |-> tw.method, flip |-> 0]
      other == [method |-> tw.method, flip |-> 4]
      hash == <<[ty |-> "bytes32", go |-> GoArray32(txHash)]>>
  IN  { [TaskId |-> <<116, 49>>, Payload |-> p, Metadata |-> <<109>>] :
          p \in { RawPayload(own, 4, hash, 0), RawPayload(other, 4, hash, 0),
                  RawPayload(own, 4, <<>>, 0), RawPayload(own, 2, <<>>, 0) } }

\* the server starts a call in an idle goroutine
Accept(i) ==
  /\ phase = "serving"
  /\ worker.variant = "config"
  /\ calls[i].pc = "idle"
  /\ \E op \in {"ValidateTask", "HandleTask"}, t \in StepTasks(worker) :
       calls' = [calls EXCEPT ![i] = [IdleCall EXCEPT !.pc = "start", !.op = op, !.t = t]]
  /\ UNCHANGED <<launch, phase, worker, req, origin, last, first>>

StepValidateTask(i) ==
  /\ worker.variant = "config"
  /\ calls[i].op = "ValidateTask"
  /\ calls[i].pc \notin {"idle", "done"}
  /\ LET r == ValidateTaskStep(worker, calls[i])
     IN  /\ worker' = r.tw
         /\ calls' = [calls EXCEPT ![i] = r.c]
  /\ UNCHANGED <<launch, phase, req, origin, last, first>>

StepHandleTask(i) ==
  /\ worker.variant = "config"
  /\ calls[i].op = "HandleTask"
  /\ calls[i].pc \notin {"idle", "done"}
  /\ LET r == HandleTaskStep(worker, calls[i])
     IN  /\ worker' = r.tw
         /\ calls' = [calls EXCEPT ![i] = r.c]
  /\ UNCHANGED <<launch, phase, req, origin, last, first>>

\* the call has returned and its goroutine ends; a remembered call has been
\* followed by another call
Finish(i) ==
  /\ calls[i].pc = "done"
  /\ calls' = [calls EXCEPT ![i] = IdleCall]
  /\ first' = IF first.set /\ (calls[i].op # "HandleTask" \/ calls[i].t # first.t)
              THEN [first EXCEPT !.between = TRUE]
              ELSE first
  /\ UNCHANGED <<launch, phase, worker, req, origin, last>>

\* the same, and the HandleTask call that returned is remembered with its outcome
Remember(i) ==
  /\ calls[i].pc = "done"
  /\ calls[i].op = "HandleTask"
  /\ ~first.set
  /\ calls' = [calls EXCEPT ![i] = IdleCall]
  /\ first' = [set |-> TRUE, t |-> calls[i].t, out |-> calls[i].out, between |-> FALSE]
  /\ UNCHANGED <<launch, phase, worker, req, origin, last>>

\* one call after the other
AcceptNext == Accept(1)
StepValidateTaskNext == StepValidateTask(1)
StepHandleTaskNext == StepHandleTask(1)
FinishNext == Finish(1)
RememberNext == Remember(1)

NextSequential ==
  \/ Main
  \/ AcceptNext
  \/ StepValidateTaskNext
  \/ StepHandleTaskNext
  \/ FinishNext
  \/ RememberNext

SpecSequential == Init /\ [][NextSequential]_vars

\* calls in all goroutines, their statements interleaved
AcceptAny == \E i \in Slots : Accept(i)
StepValidateTaskAny == \E i \in Slots : StepValidateTask(i)
StepHandleTaskAny == \E i \in Slots : StepHandleTask(i)
FinishAny == \E i \in Slots : Finish(i)

NextConcurrent ==
  \/ Main
  \/ AcceptAny
  \/ StepValidateTaskAny
  \/ StepHandleTaskAny
  \/ FinishAny

SpecConcurrent == Init /\ [][NextConcurrent]_vars

(***************************************************************************)
(* Revision "remote", statement by statement.  The ABI is parsed inside    *)
(* every call; the worker holds the endpoint configuration.  The network   *)
(* acts at the http.Post statement; the request is recorded with what came *)
(* of it.                                                                  *)
(***************************************************************************)
\* json.Marshal and http.Post of the request for the decoded arguments
Exchange(tw, args, net) ==
  LET jsonPayload == [jsonrpc |-> jsonRPCVersion,
                      method |-> jsonRPCMethodName,
                      params |-> <<HexParam(args[1].val)>>,
                      id |-> 1]
  IN  [url |-> tw.config.RPCServerURL,
       contentType |-> jsonContentType,
       data |-> jsonPayload,
       reply |-> [kind |-> net.kind, status |-> net.status,
                  body |-> ServerBody(net, jsonPayload)]]

ValidateTaskRemoteStep(tw, c) ==
  LET parsedABI == AbiJSON(contractABI)
  IN  CASE c.pc = "start" ->
             IF parsedABI.err # "nil" THEN Return(tw, c, Fail("ErrParse"))
             ELSE IF ~HasMethod(parsedABI, "dummy")
                  THEN Return(tw, c, Fail("ErrMethodNotFound"))
             ELSE IF Len(c.t.Payload) < methodSelectorLength
                  THEN Return(tw, c, Fail("ErrShortPayload"))
             ELSE Goto(tw, c, "unpack")
        [] c.pc = "unpack" ->
             LET unpacked ==
                   ArgumentsUnpack(LookupMethod(parsedABI, "dummy").Inputs,
                                   SubSeq(c.t.Payload, methodSelectorLength + 1,
                                          Len(c.t.Payload)))
             IN  IF unpacked.err # "nil" THEN Return(tw, c, Fail("ErrDecodeFailed"))
                 ELSE Goto(tw, [c EXCEPT !.args = unpacked.args], "count")
        [] c.pc = "count" ->
             IF Len(c.args) # expectedArgCount
             THEN Return(tw, c, [Fail("ErrArityMismatch") EXCEPT !.got = Len(c.args),
                                                                 !.want = expectedArgCount])
             ELSE Return(tw, c, Pass)

\* variant of HandleTaskRemoteStep that sends the argument region to the endpoint
\* before it is decoded
HandleTaskRemoteStepEagerPost(tw, c, net) ==
  LET parsedABI == AbiJSON(contractABI)
  IN  CASE c.pc = "start" ->
             IF parsedABI.err # "nil" THEN Return(tw, c, Fail("ErrParse"))
             ELSE IF ~HasMethod(parsedABI, jsonRPCMethodName)
                  THEN Return(tw, c, Fail("ErrMethodNotFound"))
             ELSE IF Len(c.t.Payload) < methodSelectorLength
                  THEN Return(tw, c, Fail("ErrShortPayload"))
             ELSE Goto(tw, c, "unpack")
        [] c.pc = "unpack" ->
             LET raw == SubSeq(c.t.Payload, methodSelectorLength + 1, Len(c.t.Payload))
                 unpacked ==
                   ArgumentsUnpack(LookupMethod(parsedABI, jsonRPCMethodName).Inputs, raw)
                 post == Exchange(tw, <<GoArray32(raw)>>, net)
             IN  IF unpacked.err # "nil"
                 THEN Return(tw, c, [Fail("ErrDecodeFailed") EXCEPT !.posts = <<post>>])
                 ELSE Goto(tw, [c EXCEPT !.args = unpacked.args,
                                         !.out = [Pass EXCEPT !.posts = <<post>>]], "count")
        [] c.pc = "count" ->
             IF Len(c.args) # expectedArgCount
             THEN Return(tw, c, [Fail("ErrArityMismatch") EXCEPT !.got = Len(c.args),
                                                                 !.want = expectedArgCount])
             ELSE Goto(tw, c, "type")
        [] c.pc = "type" ->
             IF c.args[1].gotype # "[32]byte" THEN Return(tw, c, Fail("ErrTypeMismatch"))
             ELSE Goto(tw, c, "post")
        [] c.pc = "post" ->
             IF c.out.posts[1].reply.kind = "unreachable"
             THEN Return(tw, c, [Fail("ErrRemoteUnavailable") EXCEPT !.posts = c.out.posts,
                                                                     !.args = c.args])
             ELSE Goto(tw, c, "read")
        [] c.pc = "read" ->
             LET post == c.out.posts[1]
             IN  IF post.reply.kind = "unreadable"
                 THEN Return(tw, c, [Fail("ErrRemoteResponse") EXCEPT !.posts = <<post>>,
                                                                      !.args = c.args])
                 ELSE Return(tw, c, [Pass EXCEPT !.hasResp = TRUE,
                                                 !.resp = [TaskId |-> c.t.TaskId,
                                                           Result |-> post.reply.body],
                                                 !.args = c.args,
                                                 !.posts = <<post>>])

\* variant of HandleTaskRemoteStep that marks the endpoint as down in the worker
\* when it cannot be reached or read, and does not contact an endpoint marked down
HandleTaskRemoteStepBreaker(tw, c, net) ==
  LET parsedABI == AbiJSON(contractABI)
      down == [variant |-> tw.variant, method |-> tw.method, config |-> tw.config,
               down |-> TRUE]
  IN  CASE c.pc = "start" ->
             IF parsedABI.err # "nil" THEN Return(tw, c, Fail("ErrParse"))
             ELSE IF ~HasMethod(parsedABI, jsonRPCMethodName)
                  THEN Return(tw, c, Fail("ErrMethodNotFound"))
             ELSE IF Len(c.t.Payload) < methodSelectorLength
                  THEN Return(tw, c, Fail("ErrShortPayload"))
             ELSE Goto(tw, c, "unpack")
        [] c.pc = "unpack" ->
             LET unpacked ==
                   ArgumentsUnpack(LookupMethod(parsedABI, jsonRPCMethodName).Inputs,
                                   SubSeq(c.t.Payload, methodSelectorLength + 1,
                                          Len(c.t.Payload)))
             IN  IF unpacked.err # "nil" THEN Return(tw, c, Fail("ErrDecodeFailed"))
                 ELSE Goto(tw, [c EXCEPT !.args = unpacked.args], "count")
        [] c.pc = "count" ->
             IF Len(c.args) # expectedArgCount
             THEN Return(tw, c, [Fail("ErrArityMismatch") EXCEPT !.got = Len(c.args),
                                                                 !.want = expectedArgCount])
             ELSE Goto(tw, c, "type")
        [] c.pc = "type" ->
             IF c.args[1].gotype # "[32]byte" THEN Return(tw, c, Fail("ErrTypeMismatch"))
             ELSE Goto(tw, c, "post")
        [] c.pc = "post" ->
             LET post == Exchange(tw, c.args, net)
             IN  IF "down" \in DOMAIN tw
                 THEN Return(tw, c, [Fail("ErrRemoteUnavailable") EXCEPT !.args = c.args])
                 ELSE IF net.kind = "unreachable"
                 THEN Return(down, c, [Fail("ErrRemoteUnavailable") EXCEPT !.posts = <<post>>,
                                                                          !.args = c.args])
                 ELSE Goto(tw, [c EXCEPT !.out = [Pass EXCEPT !.posts = <<post>>]], "read")
        [] c.pc = "read" ->
             LET post == c.out.posts[1]
             IN  IF post.reply.kind = "unreadable"
                 THEN Return(down, c, [Fail("ErrRemoteResponse") EXCEPT !.posts = <<post>>,
                                                                        !.args = c.args])
                 ELSE Return(tw, c, [Pass EXCEPT !.hasResp = TRUE,
                                                 !.resp = [TaskId |-> c.t.TaskId,
                                                           Result |-> post.reply.body],
                                                 !.args = c.args,
                                                 !.posts = <<post>>])

HandleTaskRemoteStep(tw, c, net) ==
  LET parsedABI == AbiJSON(contractABI)
  IN  CASE c.pc = "start" ->
             IF parsedABI.err # "nil" THEN Return(tw, c, Fail("ErrParse"))
             ELSE IF ~HasMethod(parsedABI, jsonRPCMethodName)
                  THEN Return(tw, c, Fail("ErrMethodNotFound"))
             ELSE IF Len(c.t.Payload) < methodSelectorLength
                  THEN Return(tw, c, Fail("ErrShortPayload"))
             ELSE Goto(tw, c, "unpack")
        [] c.pc = "unpack" ->
             LET unpacked ==
                   ArgumentsUnpack(LookupMethod(parsedABI, jsonRPCMethodName).Inputs,
                                   SubSeq(c.t.Payload, methodSelectorLength + 1,
                                          Len(c.t.Payload)))
             IN  IF unpacked.err # "nil" THEN Return(tw, c, Fail("ErrDecodeFailed"))
                 ELSE Goto(tw, [c EXCEPT !.args = unpacked.args], "count")
        [] c.pc = "count" ->
             IF Len(c.args) # expectedArgCount
             THEN Return(tw, c, [Fail("ErrArityMismatch") EXCEPT !.got = Len(c.args),
                                                                 !.want = expectedArgCount])
             ELSE Goto(tw, c, "type")
        [] c.pc = "type" ->
             IF c.args[1].gotype # "[32]byte" THEN Return(tw, c, Fail("ErrTypeMismatch"))
             ELSE Goto(tw, c, "post")
        [] c.pc = "post" ->
             LET post == Exchange(tw, c.args, net)
             IN  IF net.kind = "unreachable"
                 THEN Return(tw, c, [Fail("ErrRemoteUnavailable") EXCEPT !.posts = <<post>>,
                                                                         !.args = c.args])
                 ELSE Goto(tw, [c EXCEPT !.out = [Pass EXCEPT !.posts = <<post>>]], "read")
        [] c.pc = "read" ->
             LET post == c.out.posts[1]
             IN  IF post.reply.kind = "unreadable"
                 THEN Return(tw, c, [Fail("ErrRemoteResponse") EXCEPT !.posts = <<post>>,
                                                                      !.args = c.args])
                 ELSE Return(tw, c, [Pass EXCEPT !.hasResp = TRUE,
                                                 !.resp = [TaskId |-> c.t.TaskId,
                                                           Result |-> post.reply.body],
                                                 !.args = c.args,
                                                 !.posts = <<post>>])

\* the server starts a call on the remote-forward worker
AcceptRemote ==
  /\ phase = "serving"
  /\ worker.variant = "remote"
  /\ calls[1].pc = "idle"
  /\ \E op \in {"ValidateTask", "HandleTask"},
        t \in StepTasks([method |-> DeclaredMethod(worker)]) :
       calls' = [calls EXCEPT ![1] = [IdleCall EXCEPT !.pc = "start", !.op = op, !.t = t]]
  /\ UNCHANGED <<launch, phase, worker, req, origin, last, first>>

StepValidateTaskRemote ==
  /\ worker.variant = "remote"
  /\ calls[1].op = "ValidateTask"
  /\ calls[1].pc \notin {"idle", "done"}
  /\ LET r == ValidateTaskRemoteStep(worker, calls[1])
     IN  /\ worker' = r.tw
         /\ calls' = [calls EXCEPT ![1] = r.c]
  /\ UNCHANGED <<launch, phase, req, origin, last, first>>

StepHandleTaskRemote ==
  /\ worker.variant = "remote"
  /\ calls[1].op = "HandleTask"
  /\ calls[1].pc \notin {"idle", "done"}
  /\ \E net \in NetOutcomes :
       LET r == HandleTaskRemoteStep(worker, calls[1], net)
       IN  /\ worker' = r.tw
           /\ calls' = [calls EXCEPT ![1] = r.c]
  /\ UNCHANGED <<launch, phase, req, origin, last, first>>

\* the revisions whose worker holds nothing but the logger are served whole calls
SubmitSampleTaskPlain ==
  /\ worker.variant \in {"fixed", "hextext"}
  /\ SubmitSampleTask

\* every revision, one call after the other
NextStatements ==
  \/ Main
  \/ AcceptNext
  \/ StepValidateTaskNext
  \/ StepHandleTaskNext
  \/ AcceptRemote
  \/ StepValidateTaskRemote
  \/ StepHandleTaskRemote
  \/ FinishNext
  \/ RememberNext
  \/ SubmitSampleTaskPlain
  \/ ReleaseTask
  \/ CallValidateTaskFixed
  \/ CallHandleTaskFixed
  \/ CallValidateTaskHextext
  \/ CallHandleTaskHextext

SpecStatements == Init /\ [][NextStatements]_vars

(***************************************************************************)
(* Vocabulary of the properties.                                           *)
(***************************************************************************)
Validated == last.op = "ValidateTask"
Handled == last.op = "HandleTask"

\* the payload is a whole selector followed by the packed values, nothing else
PackedPayload == origin.submitted /\ ~origin.text /\ origin.nsel = 4 /\ origin.tail = 0

\* ... under the selector of the worker's own method
OwnSelector == origin.sel.flip = 0 /\ origin.sel.method = DeclaredMethod(worker)

\* ... encoding one value of each declared argument type
WellFormedPayload ==
  PackedPayload /\ OwnSelector /\ TypesOf(origin.vals) = DeclaredMethod(worker).Inputs

OneBytes32 == DeclaredMethod(worker).Inputs = <<"bytes32">>

(***************************************************************************)
(* C1                                                                      *)
(***************************************************************************)
\* C1 as claimed: for every descriptor a "config" worker is constructed with and
\* every payload made of its selector and the encoding of one value per declared
\* type, ValidateTask returns nil and HandleTask decodes the encoded values.
C1_AnyDescriptorRoundTrip ==
  (worker.variant = "config" /\ WellFormedPayload)
    => /\ Validated => last.out.err = "nil"
       /\ Handled => (last.out.err = "nil" /\ last.out.args = GoValues(origin.vals))

\* C1 as amended: the round trip holds for a worker whose descriptor declares
\* exactly one bytes32 argument: on its selector followed by the encoding of one
\* bytes32 value ValidateTask returns nil, and HandleTask succeeds having decoded
\* exactly that value.
C1_Bytes32RoundTrip ==
  (worker.variant = "config" /\ OneBytes32 /\ WellFormedPayload)
    => /\ Validated => last.out.err = "nil"
       /\ Handled => (last.out.err = "nil" /\ last.out.args = GoValues(origin.vals))

C1_Witness ==
  /\ worker.variant = "config" /\ OneBytes32 /\ WellFormedPayload
  /\ Handled
  /\ last.out.args = <<GoArray32(txHash)>>

(***************************************************************************)
(* C2                                                                      *)
(***************************************************************************)
\* hex(SHA-256(fb838cc0 || 1234567890abcdef x 4)), computed outside the model
testPayloadDigestHex ==
  << 51, 53, 50, 53, 51, 53, 97, 99, 51, 52, 49, 51, 55, 97, 102, 56,
     99, 100, 55, 100, 53, 48, 49, 100, 102, 97, 57, 57, 99, 52, 98, 98,
     52, 97, 52, 51, 97, 48, 49, 48, 56, 56, 102, 51, 50, 101, 101, 55,
     50, 51, 48, 97, 52, 99, 54, 54, 102, 51, 54, 56, 57, 48, 48, 51 >>

LocalDummyWorker ==
  worker.variant \in {"config", "fixed"}
  /\ DeclaredMethod(worker) = NewMethod("dummy", <<"bytes32">>)

\* C2: in the local-compute worker with descriptor dummy(bytes32), on every
\* payload made of the selector and one 32-byte word HandleTask succeeds and its
\* result is the lowercase hex text of SHA-256 over the whole payload, selector
\* included (and so not the digest of the argument alone); for the tests' payload
\* that is the digest 352535ac...689003.
C2_DigestOfWholePayload ==
  (LocalDummyWorker /\ PackedPayload /\ OwnSelector /\ Len(origin.vals) = 1 /\ Handled)
    => /\ last.out.err = "nil"
       /\ last.out.hasResp
       /\ last.out.resp.Result = HexEncodeToString(Sum256(req.Payload))
       /\ last.out.resp.Result # HexEncodeToString(Sum256(SubSeq(req.Payload, 5, 36)))
       /\ \A i \in 1..Len(last.out.resp.Result) :
            last.out.resp.Result[i] \in (48..57) \cup (97..102)
       /\ origin.vals[1].go = GoArray32(txHash) => last.out.resp.Result = testPayloadDigestHex

C2_Witness ==
  /\ LocalDummyWorker /\ PackedPayload /\ OwnSelector /\ Handled
  /\ origin.vals = <<[ty |-> "bytes32", go |-> GoArray32(txHash)]>>
  /\ last.out.resp.Result = testPayloadDigestHex

(***************************************************************************)
(* C3                                                                      *)
(***************************************************************************)
\* C3: on every payload of 0, 1, 2 or 3 bytes ValidateTask returns the
\* short-payload error (not the selector-mismatch error) and HandleTask returns
\* an error and no response.
C3_ShortPayloadError ==
  (worker.variant \in {"config", "fixed"} /\ origin.submitted /\ Len(req.Payload) < 4)
    => /\ Validated => last.out.err = "ErrShortPayload"
       /\ Handled => (last.out.err # "nil" /\ ~last.out.hasResp)

(***************************************************************************)
(* C4                                                                      *)
(***************************************************************************)
\* C4: on every payload of at least 4 bytes whose first 4 bytes are not, byte for
\* byte, the selector of the worker's configured method, ValidateTask returns the
\* selector-mismatch error, whatever bytes follow.
C4_SelectorMismatch ==
  (worker.variant = "config" /\ Validated /\ Len(req.Payload) >= 4
   /\ SubSeq(req.Payload, 1, 4) # worker.method.ID)
    => last.out.err = "ErrSelectorMismatch"

\* the selector differs from the worker's in its last byte only, the arguments are right
C4_Witness ==
  /\ worker.variant = "config" /\ Validated
  /\ origin.nsel = 4 /\ origin.sel.flip = 4 /\ origin.tail = 0
  /\ TypesOf(origin.vals) = worker.method.Inputs
  /\ Len(origin.vals) = 1
  /\ last.out.err = "ErrSelectorMismatch"

(***************************************************************************)
(* C5                                                                      *)
(***************************************************************************)
DefaultValue(ty) == IF ty = "bytes32" THEN GoArray32(Zeros(32)) ELSE GoBigInt(<<>>)

\* encoded size of a tuple holding the default value of each declared type
DefaultTupleSize(inputs) ==
  Len(ArgumentsPack(inputs, [i \in 1..Len(inputs) |-> DefaultValue(inputs[i])]).bytes)

\* C5: on a payload that carries the right selector ValidateTask returns the
\* length-mismatch error exactly when the number of bytes after the selector
\* differs from the encoded size of a default-valued tuple of the declared types.
C5_LengthMismatchIff ==
  (worker.variant = "config" /\ Validated /\ Len(req.Payload) >= 4
   /\ SubSeq(req.Payload, 1, 4) = worker.method.ID)
    => ((last.out.err = "ErrLengthMismatch")
          <=> (Len(req.Payload) - 4 # DefaultTupleSize(worker.method.Inputs)))

(***************************************************************************)
(* C6                                                                      *)
(***************************************************************************)
\* C6: HandleTask runs ValidateTask's checks first: on every payload ValidateTask
\* rejects, HandleTask returns an error and no result.
C6_HandleRevalidates ==
  (worker.variant = "config" /\ Handled /\ ValidateTaskConfig(worker, req).err # "nil")
    => (last.out.err # "nil" /\ ~last.out.hasResp)

(***************************************************************************)
(* C7                                                                      *)
(***************************************************************************)
\* C7: every call of ValidateTask and HandleTask returns, with nil or an error:
\* no payload makes a call panic or ends the worker.
C7_NoPanic ==
  (Validated \/ Handled) => (~last.out.panic /\ phase = "serving")

(***************************************************************************)
(* C8                                                                      *)
(***************************************************************************)
\* the payload encodes as many values as the method declares, one at least of
\* another type, under the worker's selector or under the selector of the
\* method (same name, the values' types) that packs such values
WrongTypePayload ==
  /\ PackedPayload
  /\ origin.sel.flip = 0
  /\ Len(origin.vals) = Len(worker.method.Inputs)
  /\ \E i \in 1..Len(origin.vals) : origin.vals[i].ty # worker.method.Inputs[i]
  /\ \/ OwnSelector
     \/ origin.sel.method = NewMethod(worker.method.Name, TypesOf(origin.vals))

\* C8 as claimed: on a payload encoding an argument of another type than the
\* declared one ValidateTask returns the type-mismatch or the decode-failure error.
C8_WrongTypeRejected ==
  (worker.variant = "config" /\ Validated /\ WrongTypePayload)
    => last.out.err \in {"ErrTypeMismatch", "ErrDecodeFailed"}

\* C8 as amended: on a payload encoding one-word values (bytes32, uint256) of
\* which one at least has another type than declared, ValidateTask never returns
\* the type-mismatch or decode-failure error: it returns the selector-mismatch
\* error when the payload carries the packing method's selector; under the
\* worker's own selector it returns nil when the worker declares exactly one
\* bytes32 (the word is taken as the bytes32) and the length-mismatch error for
\* every other descriptor.
C8_WrongTypeOutcome ==
  (worker.variant = "config" /\ Validated /\ WrongTypePayload)
    => last.out.err = (IF ~OwnSelector THEN "ErrSelectorMismatch"
                       ELSE IF OneBytes32 THEN "nil"
                       ELSE "ErrLengthMismatch")

\* a dummy(bytes32) worker accepts its selector followed by the uint256 123
C8_Witness ==
  /\ worker.variant = "config" /\ Validated /\ WrongTypePayload
  /\ OneBytes32 /\ OwnSelector
  /\ origin.vals[1].go = GoBigInt(<<123>>)
  /\ last.out.err = "nil"

(***************************************************************************)
(* C9                                                                      *)
(***************************************************************************)
\* C9: on a payload that encodes one argument more or one fewer than declared
\* ValidateTask returns the arity-mismatch or the length-mismatch error.
C9_ArityOffByOne ==
  (worker.variant = "config" /\ Validated /\ PackedPayload /\ OwnSelector
   /\ (Len(origin.vals) = Len(worker.method.Inputs) + 1
       \/ Len(origin.vals) = Len(worker.method.Inputs) - 1))
    => last.out.err \in {"ErrArityMismatch", "ErrLengthMismatch"}

(***************************************************************************)
(* C10                                                                     *)
(***************************************************************************)
\* C10: a worker constructed with a descriptor whose argument list is not exactly
\* one bytes32 returns an error from ValidateTask on every payload packed from
\* values of that descriptor's own types under its own selector.
C10_OwnPayloadRejected ==
  (worker.variant = "config" /\ ~OneBytes32 /\ WellFormedPayload /\ Validated)
    => last.out.err # "nil"

\* the dummy(uint256) worker of the tests rejects the packed uint256 123
C10_Witness ==
  /\ worker.variant = "config" /\ worker.method.Inputs = <<"uint256">>
  /\ WellFormedPayload /\ Validated
  /\ last.out.err = "ErrLengthMismatch" /\ last.out.got = 32 /\ last.out.want = 0

(***************************************************************************)
(* C12                                                                     *)
(***************************************************************************)
\* the TaskRequest the transport built
TaskOf(o) ==
  LET raw == RawPayload(o.sel, o.nsel, o.vals, o.tail)
  IN  [TaskId |-> o.id,
       Payload |-> IF o.text THEN HexEncodeToString(raw) ELSE raw,
       Metadata |-> o.md]

\* C12: every TaskResponse HandleTask returns, in every revision, carries the
\* TaskId of the TaskRequest it answers, and after the call the request's TaskId,
\* Payload and Metadata are what the transport delivered.
C12_TaskIdCopied ==
  Handled => /\ last.out.hasResp => last.out.resp.TaskId = origin.id
             /\ req = TaskOf(origin)

\* a remote-forward response to the task "t2"
C12_Witness ==
  /\ worker.variant = "remote" /\ Handled /\ last.out.hasResp
  /\ origin.id = <<116, 50>> /\ last.out.resp.TaskId = <<116, 50>>

(***************************************************************************)
(* C13                                                                     *)
(***************************************************************************)
\* "0x1234567890abcdef1234567890abcdef1234567890abcdef1234567890abcdef"
txHashParam ==
  LET q == <<49, 50, 51, 52, 53, 54, 55, 56, 57, 48, 97, 98, 99, 100, 101, 102>>
  IN  <<48, 120>> \o q \o q \o q \o q

\* C13: for every payload made of the core_issuePaymentCert selector and the
\* encoding of one bytes32 value, HandleTask of the remote-forward revision sends
\* one request, to the configured URL, whose method is core_issuePaymentCert and
\* whose only parameter is "0x" followed by the 64 lowercase hex digits of the
\* value; when the endpoint answers, with whatever status and body, the result
\* is exactly the body.
C13_ForwardedAndRelayed ==
  (worker.variant = "remote" /\ Handled /\ WellFormedPayload)
    => /\ Len(last.out.posts) = 1
       /\ last.out.posts[1].url = RPCServerURL
       /\ last.out.posts[1].data.method = "core_issuePaymentCert"
       /\ last.out.posts[1].data.params = <<txHashParam>>
       /\ last.out.posts[1].reply.kind = "answer"
            => /\ last.out.err = "nil" /\ last.out.hasResp
               /\ last.out.resp.Result = last.out.posts[1].reply.body

\* the endpoint answered 500 with the body "{}" and the body is the result
C13_Witness ==
  /\ worker.variant = "remote" /\ Handled /\ WellFormedPayload
  /\ Len(last.out.posts) = 1
  /\ last.out.posts[1].reply.kind = "answer" /\ last.out.posts[1].reply.status = 500
  /\ last.out.hasResp /\ last.out.resp.Result = <<123, 125>>

(***************************************************************************)
(* C14                                                                     *)
(***************************************************************************)
\* C14: in the remote-forward revision a HandleTask call sends at most one
\* request; when the endpoint cannot be reached the call returns
\* ErrRemoteUnavailable, when the body cannot be read it returns
\* ErrRemoteResponse, and in both cases it returns no TaskResponse.
C14_RemoteFailureOnce ==
  (worker.variant = "remote" /\ Handled)
    => /\ Len(last.out.posts) <= 1
       /\ \A i \in 1..Len(last.out.posts) :
            /\ last.out.posts[i].reply.kind = "unreachable"
                 => (last.out.err = "ErrRemoteUnavailable" /\ ~last.out.hasResp)
            /\ last.out.posts[i].reply.kind = "unreadable"
                 => (last.out.err = "ErrRemoteResponse" /\ ~last.out.hasResp)

\* the endpoint could not be reached: one request, no response
C14_Witness ==
  /\ worker.variant = "remote" /\ Handled
  /\ Len(last.out.posts) = 1 /\ last.out.posts[1].reply.kind = "unreachable"
  /\ last.out.err = "ErrRemoteUnavailable" /\ ~last.out.hasResp

(***************************************************************************)
(* C16                                                                     *)
(***************************************************************************)
\* the configured text is well-formed, names supported argument types only, and
\* declares the configured method
DescribesMethod(cfg) ==
  /\ cfg.ABIJSON.wellFormed
  /\ \A i \in 1..Len(cfg.ABIJSON.entries) :
       \A j \in 1..Len(cfg.ABIJSON.entries[i].inputs) :
         cfg.ABIJSON.entries[i].inputs[j] \in SupportedTypes
  /\ \E i \in 1..Len(cfg.ABIJSON.entries) : cfg.ABIJSON.entries[i].name = cfg.Method

\* C16: NewTaskWorker returns a worker, for the configured method, exactly when
\* the interface description parses and declares that method; otherwise it
\* returns an error and no worker and main gives up.  ValidateTask and HandleTask
\* are invoked on a constructed worker only.
C16_ConstructionErrors ==
  launch.variant = "config"
    => /\ phase # "boot"
            => /\ DescribesMethod(launch.cfg)
                    => /\ worker # NoWorker /\ phase = "serving"
                       /\ worker.method.Name = launch.cfg.Method
               /\ ~DescribesMethod(launch.cfg) => (worker = NoWorker /\ phase = "fatal")
       /\ last.op = "NewTaskWorker" => (last.out.err = "nil" <=> worker # NoWorker)
       /\ (Validated \/ Handled)
            => (phase = "serving" /\ worker # NoWorker /\ DescribesMethod(launch.cfg))

\* the text parses but does not declare the configured method: an error, no worker
C16_Witness ==
  /\ launch.variant = "config" /\ launch.cfg.ABIJSON = contractABI
  /\ last.op = "NewTaskWorker" /\ last.out.err = "ErrMethodNotFound"
  /\ worker = NoWorker /\ phase = "fatal"

(***************************************************************************)
(* C17                                                                     *)
(***************************************************************************)
\* hex text of SHA-256 of the 32 bytes 1234567890abcdef x 4:
\* "b7e060a60bb7a82f536a73c17bde37a1b6cf5769ee4a8325bff76c55a95b6aa4"
txHashDigestHex ==
  <<98, 55, 101, 48, 54, 48, 97, 54, 48, 98, 98, 55, 97, 56, 50, 102,
     53, 51, 54, 97, 55, 51, 99, 49, 55, 98, 100, 101, 51, 55, 97, 49,
     98, 54, 99, 102, 53, 55, 54, 57, 101, 101, 52, 97, 56, 51, 50, 53,
     98, 102, 102, 55, 54, 99, 53, 53, 97, 57, 53, 98, 54, 97, 97, 52 >>

\* hex text of SHA-256 of the 32-byte big-endian encoding of 123:
\* "661ffbd00de5aea14a1cdfb143127566abdc469ffe1160b006acc5eacb0f0ead"
uint123DigestHex ==
  <<54, 54, 49, 102, 102, 98, 100, 48, 48, 100, 101, 53, 97, 101, 97, 49,
     52, 97, 49, 99, 100, 102, 98, 49, 52, 51, 49, 50, 55, 53, 54, 54,
     97, 98, 100, 99, 52, 54, 57, 102, 102, 101, 49, 49, 54, 48, 98, 48,
     48, 54, 97, 99, 99, 53, 101, 97, 99, 98, 48, 102, 48, 101, 97, 100 >>

\* the payload is the hexadecimal text of a selector followed by one 32-byte word
HexTextOfOneWord ==
  origin.submitted /\ origin.text /\ origin.nsel = 4 /\ Len(origin.vals) = 1 /\ origin.tail = 0

\* C17: in the hex-text revision, on every payload that is the hexadecimal text
\* of a selector followed by one 32-byte word, ValidateTask returns nil and
\* HandleTask returns a response whose result is the lowercase hexadecimal text
\* of SHA-256 of the word alone.
C17_HextextDigestOfWord ==
  (worker.variant = "hextext" /\ HexTextOfOneWord)
    => /\ Validated => last.out.err = "nil"
       /\ Handled
            => /\ last.out.err = "nil" /\ last.out.hasResp
               /\ last.out.resp.Result = IF origin.vals[1].ty = "bytes32"
                                          THEN txHashDigestHex ELSE uint123DigestHex

\* the tests' payload answered with the digest of the hash
C17_Witness ==
  /\ worker.variant = "hextext" /\ HexTextOfOneWord /\ OwnSelector
  /\ origin.vals[1].ty = "bytes32"
  /\ Handled /\ last.out.hasResp /\ last.out.resp.Result = txHashDigestHex

(***************************************************************************)
(* C18                                                                     *)
(***************************************************************************)
\* the first 4 bytes of the payload are the selector of the worker's method
SelectorMatches ==
  Len(req.Payload) >= 4 /\ SubSeq(req.Payload, 1, 4) = DeclaredMethod(worker).ID

\* C18: ValidateTask checks short payload / selector, length, decode, arity and
\* type in this order and the first failing check determines the error: a payload
\* of fewer than 4 bytes is rejected but never with the selector-mismatch error; a
\* payload with another selector yields the selector-mismatch error whatever its
\* argument region is; the errors of the later checks are returned only for a
\* payload that passed the earlier ones; a call that returned an error did not
\* accept the payload.
C18_CheckOrder ==
  (worker.variant \in {"config", "fixed"} /\ Validated)
    => /\ Len(req.Payload) < 4 => last.out.err \notin {"nil", "ErrSelectorMismatch"}
       /\ (Len(req.Payload) >= 4 /\ ~SelectorMatches)
            => last.out.err = "ErrSelectorMismatch"
       /\ last.out.err \in {"ErrLengthMismatch", "ErrDecodeFailed",
                             "ErrArityMismatch", "ErrTypeMismatch"}
            => SelectorMatches
       /\ last.out.err \in {"ErrArityMismatch", "ErrTypeMismatch"}
            => Len(req.Payload) - 4 >= 32 * Len(DeclaredMethod(worker).Inputs)
       /\ last.out.err # "nil" => ~last.out.hasResp

(***************************************************************************)
(* C19                                                                     *)
(***************************************************************************)
\* the payload is the selector of the worker's method and nothing else
SelectorAlone == SelectorMatches /\ Len(req.Payload) = 4

\* the argument region has the length the length check lets through (32 bytes
\* for one bytes32, none otherwise) and holds a word for every declared argument
ReachesArityCheck ==
  /\ SelectorMatches
  /\ Len(req.Payload) - 4 = (IF OneBytes32 THEN 32 ELSE 0)
  /\ Len(req.Payload) - 4 >= 32 * Len(worker.method.Inputs)

\* C19 as claimed: the arity check compares the number of decoded arguments with
\* the number n of declared ones, so ValidateTask never returns ErrArityMismatch
\* for a payload that decodes into n arguments, and a worker whose descriptor
\* declares no argument accepts the payload that is its selector alone.
C19_ArityAgainstDeclared ==
  (worker.variant = "config" /\ Validated)
    => /\ last.out.err = "ErrArityMismatch" => last.out.got # Len(worker.method.Inputs)
       /\ (Len(worker.method.Inputs) = 0 /\ SelectorAlone) => last.out.err = "nil"

\* C19 as amended: the arity check compares the number of decoded arguments
\* (always the declared number n) with 1.  ValidateTask returns ErrArityMismatch
\* exactly when the payload reaches the arity check and n differs from 1, and it
\* accepts a payload only when n = 1: a worker whose descriptor declares no
\* argument rejects its selector alone with "expected 1 argument, got 0".
C19_ArityAgainstOne ==
  (worker.variant = "config" /\ Validated)
    => /\ last.out.err = "ErrArityMismatch"
            <=> (ReachesArityCheck /\ Len(worker.method.Inputs) # 1)
       /\ last.out.err = "ErrArityMismatch"
            => (last.out.want = 1 /\ last.out.got = Len(worker.method.Inputs))
       /\ last.out.err = "nil" => Len(worker.method.Inputs) = 1

\* the worker of dummy() rejects the selector of dummy() alone
C19_Witness ==
  /\ worker.variant = "config" /\ worker.method.Inputs = <<>>
  /\ Validated /\ PackedPayload /\ SelectorAlone
  /\ last.out.err = "ErrArityMismatch" /\ last.out.got = 0 /\ last.out.want = 1

(***************************************************************************)
(* C20                                                                     *)
(***************************************************************************)
\* C20: in the remote-forward revision ValidateTask returns nil on every payload
\* HandleTask accepts (a selector followed by at least one 32-byte word), in
\* particular on the core_issuePaymentCert selector followed by one word.
C20_RemoteValidateAccepts ==
  (worker.variant = "remote" /\ Validated /\ origin.submitted)
    => /\ Len(req.Payload) >= 36 => last.out.err = "nil"
       /\ WellFormedPayload => last.out.err = "nil"

(***************************************************************************)
(* C11                                                                     *)
(***************************************************************************)
\* C11: HandleTask of the local-compute worker called again with a TaskRequest it
\* was called with before, after any sequence of other ValidateTask and
\* HandleTask calls, returns the outcome it returned before: the same response
\* or the same error.
C11_HandleTaskIdempotent ==
  \A i \in Slots :
    (first.set /\ calls[i].pc = "done" /\ calls[i].op = "HandleTask"
     /\ calls[i].t = first.t)
      => calls[i].out = first.out

\* a request answered with a digest, other calls after it, and the same request
\* answered again
C11_Witness ==
  /\ first.set /\ first.between /\ first.out.hasResp
  /\ calls[1].pc = "done" /\ calls[1].op = "HandleTask" /\ calls[1].t = first.t
  /\ calls[1].out.hasResp

(***************************************************************************)
(* C15                                                                     *)
(***************************************************************************)
\* the worker NewTaskWorker returned
ConstructedWorker == NewTaskWorkerConfig(launch.cfg).worker

\* the outcome of the call when nothing else runs
Alone(c) ==
  IF c.op = "ValidateTask" THEN ValidateTaskConfig(ConstructedWorker, c.t)
  ELSE HandleTaskConfig(ConstructedWorker, c.t)

\* C15: with ValidateTask and HandleTask calls running at the same time on one
\* worker, their statements interleaved in any way, every call returns the
\* outcome it returns when it runs alone, and the worker the calls share stays
\* as NewTaskWorker returned it.
C15_ConcurrentCallsIndependent ==
  (launch.variant = "config" /\ phase = "serving")
    => /\ worker = ConstructedWorker
       /\ \A i \in Slots : calls[i].pc = "done" => calls[i].out = Alone(calls[i])

\* a HandleTask call returns its digest while a call for another request is
\* between its decode and its checks
C15_Witness ==
  /\ calls[1].pc = "done" /\ calls[1].op = "HandleTask" /\ calls[1].out.hasResp
  /\ calls[2].pc = "count" /\ calls[2].t # calls[1].t

(***************************************************************************)
(* C23                                                                     *)
(***************************************************************************)
\* C23: a worker whose descriptor is dummy(bytes32) (configured, or hard-coded)
\* accepts a payload in ValidateTask if and only if the payload is exactly 36
\* bytes long and its first 4 bytes are the selector; for such a payload the
\* decode, arity and type checks do not fail, whatever the 32-byte word is.
C23_AcceptsIff36AndSelector ==
  (worker.variant \in {"config", "fixed"} /\ OneBytes32 /\ Validated /\ origin.submitted)
    => /\ last.out.err = "nil" <=> (Len(req.Payload) = 36 /\ SelectorMatches)
       /\ (SelectorMatches /\ Len(req.Payload) = 36)
            => last.out.err \notin {"ErrDecodeFailed", "ErrArityMismatch", "ErrTypeMismatch"}

\* the word that encodes the uint256 123 is accepted as the bytes32 argument
C23_Witness ==
  /\ worker.variant = "config" /\ OneBytes32 /\ Validated
  /\ PackedPayload /\ OwnSelector /\ TypesOf(origin.vals) = <<"uint256">>
  /\ Len(req.Payload) = 36 /\ last.out.err = "nil"

(***************************************************************************)
(* C21                                                                     *)
(***************************************************************************)
\* the worker main received from NewTaskWorker
WorkerAtConstruction ==
  IF launch.variant = "config" THEN NewTaskWorkerConfig(launch.cfg).worker
  ELSE NewTaskWorkerPlain(launch.variant).worker

\* C21: in every revision ValidateTask has no effect besides its verdict: a
\* ValidateTask call never reaches the digest or the forwarding statements, it
\* returns no response and has sent no request, and at every point of every
\* sequence of ValidateTask and HandleTask calls the worker (method descriptor
\* with its selector, endpoint configuration) is the one NewTaskWorker returned
C21_ValidateTaskNoEffect ==
  /\ phase # "boot" => worker = WorkerAtConstruction
  /\ \A i \in Slots :
       calls[i].op = "ValidateTask"
         => /\ calls[i].pc \notin {"hash", "post", "read"}
            /\ ~calls[i].out.hasResp
            /\ calls[i].out.posts = <<>>
  /\ Validated => (~last.out.hasResp /\ last.out.posts = <<>>)

\* a HandleTask call answered with a digest, and later a ValidateTask call that
\* accepted its payload and returned
C21_Witness ==
  /\ worker.variant = "config" /\ worker.method.Name = "dummy"
  /\ first.set /\ first.out.hasResp
  /\ calls[1].op = "ValidateTask" /\ calls[1].pc = "done"
  /\ calls[1].out.err = "nil" /\ Len(calls[1].args) = 1
  /\ worker = WorkerAtConstruction

(***************************************************************************)
(* C22                                                                     *)
(***************************************************************************)
\* C22: in the remote-forward revision HandleTask sends nothing before its
\* local checks are through: a call that returned a short-payload, decode,
\* arity or type error has sent no request, no request exists while the call
\* is at or before the http.Post statement, and a call that has sent a request
\* has sent exactly one, for exactly one decoded argument of 32 bytes
C22_PostAfterLocalChecks ==
  (worker.variant = "remote" /\ calls[1].op = "HandleTask")
    => LET c == calls[1]
       IN  /\ (c.pc = "done" /\ c.out.err \in {"ErrShortPayload", "ErrDecodeFailed",
                                              "ErrArityMismatch", "ErrTypeMismatch"})
                => c.out.posts = <<>>
           /\ c.pc \in {"start", "unpack", "count", "type", "post"} => c.out.posts = <<>>
           /\ c.out.posts # <<>>
                => /\ Len(c.out.posts) = 1
                   /\ Len(c.args) = 1
                   /\ c.args[1].gotype = "[32]byte"
                   /\ Len(c.args[1].val) = 32
                   /\ c.out.posts[1].data.params = <<HexParam(c.args[1].val)>>

\* a payload that is the selector alone was refused at decoding, nothing sent
C22_Witness ==
  /\ worker.variant = "remote"
  /\ calls[1].op = "HandleTask" /\ calls[1].pc = "done"
  /\ Len(calls[1].t.Payload) = 4
  /\ calls[1].out.err = "ErrDecodeFailed"
  /\ calls[1].out.posts = <<>>

(***************************************************************************)
(* C24                                                                     *)
(***************************************************************************)
\* C24: in the remote-forward revision, when a HandleTask call failed because
\* the endpoint could not be reached or its answer could not be read, a later
\* HandleTask call with the same request sends one request, the same as the
\* failed call's, to the configured endpoint; if the endpoint answers, the call
\* returns the task id with the answer's body as result; its outcome is the one
\* of a newly constructed worker; and the worker is as constructed
C24_FailedCallLeavesNothing ==
  (/\ worker.variant = "remote"
   /\ first.set /\ first.out.err \in {"ErrRemoteUnavailable", "ErrRemoteResponse"}
   /\ calls[1].op = "HandleTask" /\ calls[1].pc = "done" /\ calls[1].t = first.t)
    => LET out == calls[1].out
       IN  /\ worker = WorkerAtConstruction
           /\ Len(out.posts) = 1
           /\ out.posts[1].url = RPCServerURL
           /\ out.posts[1].data = first.out.posts[1].data
           /\ out.posts[1].reply.kind = "answer"
                => /\ out.err = "nil" /\ out.hasResp
                   /\ out.resp = [TaskId |-> first.t.TaskId,
                                  Result |-> out.posts[1].reply.body]
           /\ \E net \in NetOutcomes :
                out = HandleTaskRemote(WorkerAtConstruction, first.t, net)

\* the endpoint was unreachable for the first call; other calls came between;
\* the same request was then forwarded and answered with a body
C24_Witness ==
  /\ worker.variant = "remote"
  /\ first.set /\ first.between /\ first.out.err = "ErrRemoteUnavailable"
  /\ calls[1].op = "HandleTask" /\ calls[1].pc = "done" /\ calls[1].t = first.t
  /\ calls[1].out.err = "nil" /\ calls[1].out.hasResp
  /\ calls[1].out.resp.Result = <<123, 125>>


====
